---- MODULE Spec2Model ----
(***************************************************************************)
(* Teachify backend: the Resource/Content store with the link transaction  *)
(* (ResourceLinkService), the version ledger (VersionService), the         *)
(* resource handlers (ResourceController, ContentController) and the       *)
(* resource-search cache (ResourceService).                                *)
(***************************************************************************)
EXTENDS Integers, Sequences, FiniteSets, TLC

(***************************************************************************)
(* Bounds of the model.                                                    *)
(***************************************************************************)
MaxCalls == 4         \* calls that write to the store
MaxTicks == 3         \* advances of the clock
MAX_CACHE_SIZE == 2   \* ResourceService.MAX_CACHE_SIZE, scaled down from 20

(***************************************************************************)
(* Identifiers.  ObjectIds are never reused, so the documents of a         *)
(* collection are numbered in creation order: a collection is the sequence *)
(* of its documents, a deleted one leaving its place empty.                *)
(***************************************************************************)
Undefined == 0        \* an optional ObjectId field that is not set
InvalidId == 0 - 1    \* a string for which Types.ObjectId.isValid is false
LinkTypes == {"primary", "supplementary"}
UserIds == {1}

VARIABLES
    resources,        \* Resource collection: id -> document
    contents,         \* Content collection: id -> document
    calls,            \* number of calls that have written to the store
    now,              \* Date.now()
    resourceCache,    \* ResourceService.resourceCache
    stored,           \* the keys cacheResult was called with, oldest first, each
                      \* at the place of its latest call
    pending,          \* the async calls suspended at an await
    last              \* the call that ran last, and what it returned

vars == <<resources, contents, calls, now, resourceCache, stored, pending, last>>
dbVars == <<resources, contents, calls>>

\* the ids a client passes: those of the documents created so far, one that
\* names no document, and one that is no ObjectId
ResourceIdInputs == {InvalidId} \cup 1..(Len(resources) + 1)
ContentIdInputs == {InvalidId} \cup 1..(Len(contents) + 1)

(***************************************************************************)
(* Documents.                                                              *)
(***************************************************************************)
NoResource == [exists |-> FALSE, content |-> Undefined, linkType |-> ""]
NoContent ==
    [exists |-> FALSE, title |-> "", description |-> "", resources |-> <<>>,
     syllabusData |-> "", versions |-> <<>>, currentVersion |-> 0]
NoVersion ==
    [versionNumber |-> 0,
     content |-> [title |-> "", description |-> "", resources |-> <<>>,
                  syllabusData |-> ""],
     changes |-> <<>>, createdAt |-> 0, createdBy |-> 0]

\* Types.ObjectId.isValid
IsValidObjectId(id) == id # InvalidId

\* Model.findById: null for an id that names no document
FindResource(res, id) == IF id \in DOMAIN res THEN res[id] ELSE NoResource
FindContent(con, id) == IF id \in DOMAIN con THEN con[id] ELSE NoContent

\* Array.prototype.some(id => id.equals(x))
Contains(seq, x) == \E i \in 1..Len(seq) : seq[i] = x

RECURSIVE Count(_, _)
Count(seq, x) ==
    IF seq = <<>> THEN 0
    ELSE (IF Head(seq) = x THEN 1 ELSE 0) + Count(Tail(seq), x)

NoCall ==
    [op |-> "none", rid |-> Undefined, cid |-> Undefined, linkType |-> "",
     n |-> 0, fault |-> "none", again |-> FALSE, result |-> "ok",
     version |-> NoVersion, key |-> <<>>, found |-> <<>>, params |-> <<>>,
     via |-> "", topics |-> <<>>]

(***************************************************************************)
(* ContentController.createContent                                         *)
(***************************************************************************)
NewContent(title, description, syllabusData) ==
    [exists |-> TRUE, title |-> title, description |-> description,
     resources |-> <<>>, syllabusData |-> syllabusData, versions |-> <<>>,
     currentVersion |-> 1]

CreateContent(title, description) ==
    /\ IF title = "" \/ description = ""
       THEN /\ UNCHANGED dbVars
            /\ last' = [NoCall EXCEPT !.op = "createContent", !.result = "error"]
       ELSE /\ calls < MaxCalls
            /\ calls' = calls + 1
            /\ contents' = Append(contents, NewContent(title, description, "{}"))
            /\ UNCHANGED resources
            /\ last' = [NoCall EXCEPT !.op = "createContent",
                                      !.cid = Len(contents) + 1]
    /\ UNCHANGED <<now, resourceCache, stored, pending>>

(***************************************************************************)
(* ResourceController.createResource / uploadResource / deleteResource     *)
(***************************************************************************)
NewResource(contentId, linkType) ==
    [exists |-> TRUE, content |-> contentId, linkType |-> linkType]

\* body: "ok", or "missing" when title, type or subjectId is absent
CreateResource(body, contentId) ==
    /\ IF body = "missing" \/ ~IsValidObjectId(contentId)
       THEN /\ UNCHANGED dbVars
            /\ last' = [NoCall EXCEPT !.op = "createResource", !.result = "error"]
       ELSE /\ calls < MaxCalls
            /\ calls' = calls + 1
            /\ resources' = Append(resources, NewResource(contentId, ""))
            /\ UNCHANGED contents
            /\ last' = [NoCall EXCEPT !.op = "createResource",
                                      !.rid = Len(resources) + 1, !.cid = contentId]
    /\ UNCHANGED <<now, resourceCache, stored, pending>>

UploadResource(contentId) ==
    /\ IF ~IsValidObjectId(contentId) \/ ~FindContent(contents, contentId).exists
       THEN /\ UNCHANGED dbVars
            /\ last' = [NoCall EXCEPT !.op = "uploadResource", !.result = "error"]
       ELSE /\ calls < MaxCalls
            /\ calls' = calls + 1
            /\ resources' = Append(resources, NewResource(contentId, "primary"))
            /\ UNCHANGED contents
            /\ last' = [NoCall EXCEPT !.op = "uploadResource",
                                      !.rid = Len(resources) + 1, !.cid = contentId]
    /\ UNCHANGED <<now, resourceCache, stored, pending>>

\* Resource.findByIdAndDelete
DeleteResource(rid) ==
    /\ IF ~FindResource(resources, rid).exists
       THEN /\ UNCHANGED dbVars
            /\ last' = [NoCall EXCEPT !.op = "deleteResource", !.rid = rid,
                                      !.result = "error"]
       ELSE /\ calls < MaxCalls
            /\ calls' = calls + 1
            /\ resources' = [resources EXCEPT ![rid] = NoResource]
            /\ UNCHANGED contents
            /\ last' = [NoCall EXCEPT !.op = "deleteResource", !.rid = rid]
    /\ UNCHANGED <<now, resourceCache, stored, pending>>

(***************************************************************************)
(* ResourceLinkService.linkResourceToContent                               *)
(*                                                                         *)
(* A session's transaction works on its own view of the two collections    *)
(* (txRes, txCon); commitTransaction publishes the view, abortTransaction  *)
(* drops it.  fault names the await that rejects in this call.             *)
(***************************************************************************)
LinkFaults == {"none", "resourceSave", "contentSave", "commit"}

StartTransaction(res, con) ==
    [res |-> res, con |-> con, txRes |-> res, txCon |-> con]

\* resource.save() without the session: the write is not part of the transaction
SaveResourceOutsideSession(st, rid, doc) ==
    [st EXCEPT !.res[rid] = doc, !.txRes[rid] = doc]

\* resource.save({ session })
SaveResourceInSession(st, rid, doc) == [st EXCEPT !.txRes[rid] = doc]

\* content.save({ session })
SaveContentInSession(st, cid, doc) == [st EXCEPT !.txCon[cid] = doc]

CommitTransaction(st) == [st EXCEPT !.res = st.txRes, !.con = st.txCon]

AbortTransaction(st) == [st EXCEPT !.txRes = st.res, !.txCon = st.con]

\* a catch block that aborts and returns instead of throwing
LinkSwallow(st, stage) ==
    [st |-> [st EXCEPT !.txRes = st.res, !.txCon = st.con], result |-> "ok",
     failedAt |-> stage]

\* catch: abort, then throw 'Failed to link resource: ...'
LinkThrow(st, stage) ==
    [st |-> AbortTransaction(st), result |-> "error", failedAt |-> stage]

\* commit, then return resource
LinkReturn(st) ==
    [st |-> CommitTransaction(st), result |-> "ok", failedAt |-> "none"]

\* the push without the membership test
AlwaysPush(content, rid) == TRUE

\* !content.resources.some(id => id.equals(resourceObjectId))
NeedsPush(content, rid) == ~Contains(content.resources, rid)

LinkResourceToContent(res, con, rid, cid, linkType, fault) ==
    LET st0 == StartTransaction(res, con) IN
    IF ~IsValidObjectId(rid) \/ ~IsValidObjectId(cid)
    THEN LinkThrow(st0, "validate")
    ELSE
    LET resource == FindResource(st0.txRes, rid)
        content == FindContent(st0.txCon, cid) IN
    IF ~resource.exists \/ ~content.exists
    THEN LinkThrow(st0, "find")
    ELSE
    IF fault = "resourceSave"
    THEN LinkThrow(st0, "resourceSave")
    ELSE
    LET st1 == SaveResourceInSession(st0, rid,
                   [resource EXCEPT !.content = cid, !.linkType = linkType])
        push == NeedsPush(content, rid) IN
    IF push /\ fault = "contentSave"
    THEN LinkThrow(st1, "contentSave")
    ELSE
    LET st2 == IF push
               THEN SaveContentInSession(st1, cid,
                        [content EXCEPT !.resources = Append(@, rid)])
               ELSE st1 IN
    IF fault = "commit"
    THEN LinkThrow(st2, "commit")
    ELSE LinkReturn(st2)

Link(rid, cid, linkType, fault) ==
    LET out == LinkResourceToContent(resources, contents, rid, cid, linkType, fault) IN
    /\ out.result = "ok" => calls < MaxCalls
    /\ calls' = IF out.result = "ok" THEN calls + 1 ELSE calls
    /\ resources' = out.st.res
    /\ contents' = out.st.con
    /\ last' = [NoCall EXCEPT
                  !.op = "link", !.rid = rid, !.cid = cid, !.linkType = linkType,
                  !.fault = out.failedAt, !.result = out.result,
                  !.again = /\ last.op = "link" /\ last.result = "ok"
                            /\ last.rid = rid /\ last.cid = cid
                            /\ last.linkType = linkType]
    /\ UNCHANGED <<now, resourceCache, stored, pending>>

(***************************************************************************)
(* VersionService                                                          *)
(*                                                                         *)
(* updates is the caller's object: fields holds the names of the           *)
(* properties it has.  In updates.f || content.f an empty string is falsy  *)
(* and an array, also an empty one, is truthy.                             *)
(***************************************************************************)
NoUpdates ==
    [fields |-> {}, title |-> "", description |-> "", resources |-> <<>>,
     syllabusData |-> ""]

UpdateInputs ==
    { NoUpdates,
      [NoUpdates EXCEPT !.fields = {"title"}, !.title = ""],
      [NoUpdates EXCEPT !.fields = {"resources"}, !.resources = <<>>],
      [NoUpdates EXCEPT !.fields = {"resources"}, !.resources = <<1>>] }

TruthyTitle(updates) == "title" \in updates.fields /\ updates.title # ""
TruthyDescription(updates) ==
    "description" \in updates.fields /\ updates.description # ""
TruthyResources(updates) == "resources" \in updates.fields
TruthySyllabusData(updates) ==
    "syllabusData" \in updates.fields /\ updates.syllabusData # ""

\* numbering from the current-version pointer instead of the ledger
NumberAfterCurrent(content) == content.currentVersion + 1

\* versionNumber: content.versions.length + 1
NextVersionNumber(content) == Len(content.versions) + 1

\* const newVersion: Version = { ... }
NewVersion(content, userId, updates, changes, time) ==
    [versionNumber |-> NextVersionNumber(content),
     content |->
        [title |-> IF TruthyTitle(updates) THEN updates.title ELSE content.title,
         description |-> IF TruthyDescription(updates) THEN updates.description
                         ELSE content.description,
         resources |-> IF TruthyResources(updates) THEN updates.resources
                       ELSE content.resources,
         syllabusData |-> IF TruthySyllabusData(updates) THEN updates.syllabusData
                          ELSE content.syllabusData],
     changes |-> changes, createdAt |-> time, createdBy |-> userId]

\* an assignment in place of the push
ReplaceVersions(versions, version) == <<version>>

\* content.versions.push(newVersion)
PushVersion(versions, version) == Append(versions, version)

\* the document createVersion hands to content.save()
VersionedContent(content, version, updates) ==
    [content EXCEPT
       !.versions = PushVersion(@, version),
       !.currentVersion = version.versionNumber,
       !.title = IF TruthyTitle(updates) THEN updates.title ELSE @,
       !.description = IF TruthyDescription(updates) THEN updates.description ELSE @,
       !.resources = IF TruthyResources(updates) THEN updates.resources ELSE @,
       !.syllabusData = IF TruthySyllabusData(updates) THEN updates.syllabusData
                        ELSE @]

VersionFaults == {"none", "save"}

CreateVersionRun(con, cid, userId, updates, changes, time, fault) ==
    LET content == FindContent(con, cid)
        failed == [con |-> con, result |-> "error", version |-> NoVersion] IN
    IF ~IsValidObjectId(cid) \/ ~content.exists \/ ~IsValidObjectId(userId)
    THEN failed
    ELSE
    LET newVersion == NewVersion(content, userId, updates, changes, time) IN
    IF fault = "save"
    THEN failed
    ELSE [con |-> [con EXCEPT ![cid] = VersionedContent(content, newVersion, updates)],
          result |-> "ok", version |-> newVersion]

CreateVersion(cid, userId, updates, changes, fault) ==
    LET out == CreateVersionRun(contents, cid, userId, updates, changes, now, fault) IN
    /\ out.result = "ok" => calls < MaxCalls
    /\ calls' = IF out.result = "ok" THEN calls + 1 ELSE calls
    /\ contents' = out.con
    /\ last' = [NoCall EXCEPT !.op = "createVersion", !.cid = cid,
                              !.result = out.result, !.version = out.version]
    /\ UNCHANGED <<resources, now, resourceCache, stored, pending>>

\* content.versions[versionNumber]: the number used as a 0-based index
VersionAtIndex(versions, n) ==
    IF n + 1 \in 1..Len(versions) THEN versions[n + 1] ELSE NoVersion

\* content.versions?.find(v => v.versionNumber === versionNumber)
RECURSIVE FindVersion(_, _)
FindVersion(versions, n) ==
    IF versions = <<>> THEN NoVersion
    ELSE IF Head(versions).versionNumber = n THEN Head(versions)
    ELSE FindVersion(Tail(versions), n)

GetVersion(cid, n) ==
    LET content == FindContent(contents, cid)
        version == FindVersion(content.versions, n) IN
    /\ last' = [NoCall EXCEPT
                  !.op = "getVersion", !.cid = cid, !.n = n,
                  !.result = IF ~IsValidObjectId(cid) \/ ~content.exists
                                \/ version = NoVersion
                             THEN "error" ELSE "ok",
                  !.version = IF ~IsValidObjectId(cid) \/ ~content.exists
                              THEN NoVersion ELSE version]
    /\ UNCHANGED <<dbVars, now, resourceCache, stored, pending>>

\* returns content.versions || []; n records the length of the returned list
ListVersions(cid) ==
    LET content == FindContent(contents, cid) IN
    /\ last' = [NoCall EXCEPT
                  !.op = "listVersions", !.cid = cid,
                  !.n = Len(content.versions),
                  !.result = IF ~IsValidObjectId(cid) \/ ~content.exists
                             THEN "error" ELSE "ok"]
    /\ UNCHANGED <<dbVars, now, resourceCache, stored, pending>>

(***************************************************************************)
(* ResourceService: the search cache.                                      *)
(*                                                                         *)
(* A string is a sequence of one-character strings, so that sorting and    *)
(* joining are computed as the code computes them.                         *)
(***************************************************************************)
CACHE_EXPIRY == 5 * 60 * 1000

CharCode ==
    [c \in {",", "-", "0", "1", "2", "3", "4", "5", "6", "7", "8", "9",
            "a", "b", "l", "q", "|"} |->
        CASE c = "," -> 44 [] c = "-" -> 45 [] c = "0" -> 48 [] c = "1" -> 49
          [] c = "2" -> 50 [] c = "3" -> 51 [] c = "4" -> 52 [] c = "5" -> 53
          [] c = "6" -> 54 [] c = "7" -> 55 [] c = "8" -> 56 [] c = "9" -> 57
          [] c = "a" -> 97 [] c = "b" -> 98 [] c = "l" -> 108 [] c = "q" -> 113
          [] c = "|" -> 124]

\* s < t in the order Array.prototype.sort uses by default (UTF-16 code units)
RECURSIVE StrLess(_, _)
StrLess(s, t) ==
    IF t = <<>> THEN FALSE
    ELSE IF s = <<>> THEN TRUE
    ELSE IF CharCode[Head(s)] # CharCode[Head(t)]
         THEN CharCode[Head(s)] < CharCode[Head(t)]
    ELSE StrLess(Tail(s), Tail(t))

RECURSIVE InsertTopic(_, _)
InsertTopic(sorted, x) ==
    IF sorted = <<>> THEN <<x>>
    ELSE IF StrLess(x, Head(sorted)) THEN <<x>> \o sorted
    ELSE <<Head(sorted)>> \o InsertTopic(Tail(sorted), x)

\* the topics in the order given
Unsorted(topics) == topics

\* topics.sort()
RECURSIVE SortTopics(_)
SortTopics(topics) ==
    IF topics = <<>> THEN <<>>
    ELSE InsertTopic(SortTopics(SubSeq(topics, 1, Len(topics) - 1)),
                     topics[Len(topics)])

\* Array.prototype.join(',')
RECURSIVE Join(_)
Join(strs) ==
    IF strs = <<>> THEN <<>>
    ELSE IF Len(strs) = 1 THEN strs[1]
    ELSE strs[1] \o <<",">> \o Join(Tail(strs))

Digit == <<"0", "1", "2", "3", "4", "5", "6", "7", "8", "9">>

\* String(n) for an integer n
RECURSIVE NatToString(_)
NatToString(n) ==
    IF n < 10 THEN <<Digit[n + 1]>>
    ELSE NatToString(n \div 10) \o <<Digit[(n % 10) + 1]>>
NumberToString(n) == IF n < 0 THEN <<"-">> \o NatToString(0 - n) ELSE NatToString(n)

\* params: fields holds the names of the optional properties the request has
GenerateCacheKey(params) ==
    LET topicsKey == Join(SortTopics(params.topics))
        queryKey == params.query
        typeKey == IF "type" \in params.fields /\ params.type # <<>>
                   THEN params.type ELSE <<"a", "l", "l">>
        limitKey == IF "limit" \in params.fields /\ params.limit # 0
                    THEN params.limit ELSE 10
    IN topicsKey \o <<"|">> \o queryKey \o <<"|">> \o typeKey \o <<"|">>
         \o NumberToString(limitKey)

\* resourceCache.find(entry => entry.key === key); <<>> stands for undefined
RECURSIVE FindEntry(_, _)
FindEntry(cache, key) ==
    IF cache = <<>> THEN <<>>
    ELSE IF Head(cache).key = key THEN <<Head(cache)>>
    ELSE FindEntry(Tail(cache), key)

\* the subtraction the wrong way round
IsFreshSwapped(entry, time) == (entry.timestamp - time) < CACHE_EXPIRY

\* (now - cacheEntry.timestamp) < this.CACHE_EXPIRY
IsFresh(entry, time) == (time - entry.timestamp) < CACHE_EXPIRY

\* the resources getCachedResult returns, in a one-element list; <<>> for null
CachedResult(cache, params, time) ==
    LET hit == FindEntry(cache, GenerateCacheKey(params)) IN
    IF hit # <<>> /\ IsFresh(hit[1], time) THEN <<hit[1].resources>> ELSE <<>>

GetCachedResult(params) ==
    /\ last' = [NoCall EXCEPT !.op = "getCachedResult",
                              !.key = GenerateCacheKey(params),
                              !.found = CachedResult(resourceCache, params, now),
                              !.result = IF CachedResult(resourceCache, params, now) = <<>>
                                         THEN "null" ELSE "hit"]
    /\ UNCHANGED <<dbVars, now, resourceCache, stored, pending>>

\* the earlier entry under the key is kept
KeepKey(cache, key) == cache

\* resourceCache.filter(entry => entry.key !== key)
RECURSIVE RemoveKey(_, _)
RemoveKey(cache, key) ==
    IF cache = <<>> THEN <<>>
    ELSE IF Head(cache).key = key THEN RemoveKey(Tail(cache), key)
    ELSE <<Head(cache)>> \o RemoveKey(Tail(cache), key)

RECURSIVE InsertByTimestamp(_, _)
InsertByTimestamp(sorted, e) ==
    IF sorted = <<>> THEN <<e>>
    ELSE IF e.timestamp < sorted[Len(sorted)].timestamp
         THEN Append(InsertByTimestamp(SubSeq(sorted, 1, Len(sorted) - 1), e),
                     sorted[Len(sorted)])
    ELSE Append(sorted, e)

\* resourceCache.sort((a, b) => a.timestamp - b.timestamp), a stable sort
RECURSIVE SortByTimestamp(_)
SortByTimestamp(cache) ==
    IF cache = <<>> THEN <<>>
    ELSE InsertByTimestamp(SortByTimestamp(SubSeq(cache, 1, Len(cache) - 1)),
                           cache[Len(cache)])

\* no size limit
Unlimited(cache) == cache

\* slice(0, MAX_CACHE_SIZE): keeps the oldest entries
KeepOldest(cache) ==
    IF Len(cache) > MAX_CACHE_SIZE
    THEN SubSeq(SortByTimestamp(cache), 1, MAX_CACHE_SIZE)
    ELSE cache

\* if (length > MAX_CACHE_SIZE) { sort; slice(-MAX_CACHE_SIZE) }
LimitSize(cache) ==
    IF Len(cache) > MAX_CACHE_SIZE
    THEN SubSeq(SortByTimestamp(cache), Len(cache) - MAX_CACHE_SIZE + 1, Len(cache))
    ELSE cache

StoreResult(cache, params, found, time) ==
    LET key == GenerateCacheKey(params) IN
    LimitSize(Append(RemoveKey(cache, key),
                     [key |-> key, resources |-> found, timestamp |-> time]))

CacheResult(params, found) ==
    /\ resourceCache' = StoreResult(resourceCache, params, found, now)
    /\ last' = [NoCall EXCEPT !.op = "cacheResult",
                              !.key = GenerateCacheKey(params), !.found = <<found>>]
    /\ stored' = Append(SelectSeq(stored, LAMBDA k : k # GenerateCacheKey(params)),
                        GenerateCacheKey(params))
    /\ UNCHANGED <<dbVars, now, pending>>

\* Time passes between two calls, half a CACHE_EXPIRY at a time; the clock does
\* not run backwards.
TickLength == CACHE_EXPIRY \div 2

Tick ==
    /\ now \div TickLength < MaxTicks
    /\ now' = now + TickLength
    /\ last' = NoCall
    /\ UNCHANGED <<dbVars, resourceCache, stored, pending>>

Param(topics, fields, limit) ==
    [topics |-> topics, query |-> <<"q">>, fields |-> fields, type |-> <<>>,
     limit |-> limit]

\* requests with MAX_CACHE_SIZE + 1 different keys: MAX_CACHE_SIZE limits and
\* the default one, and one of them with the topics in the other order too
SearchInputs ==
    {Param(<<<<"a">>, <<"b">>>>, {"limit"}, n) : n \in 1..MAX_CACHE_SIZE}
    \cup {Param(<<<<"b">>, <<"a">>>>, {"limit"}, 1),
          Param(<<<<"a">>, <<"b">>>>, {}, 0)}

ResultLists == {<<"example.com">>}

Init ==
    /\ resources = <<>>
    /\ contents = <<>>
    /\ calls = 0
    /\ now = 0
    /\ resourceCache = <<>>
    /\ stored = <<>>
    /\ pending = <<>>
    /\ last = NoCall

(***************************************************************************)
(* The calls a client makes.  A call that is rejected before it touches    *)
(* the store is the same whatever its other arguments are, so the rejected *)
(* calls are listed once each.                                             *)
(***************************************************************************)
LinkInputs ==
    {<<r, c, t, "none">> : r \in 1..Len(resources), c \in 1..Len(contents),
                           t \in LinkTypes}
    \cup {<<r, c, "primary", f>> : r \in 1..Len(resources), c \in 1..Len(contents),
                                   f \in LinkFaults}
    \cup {<<Len(resources) + 1, c, "primary", "none">> : c \in 1..Len(contents)}
    \cup {<<r, Len(contents) + 1, "primary", "none">> : r \in 1..Len(resources)}
    \cup {<<InvalidId, 1, "primary", "none">>, <<1, InvalidId, "primary", "none">>}

CreateVersionInputs ==
    {<<c, 1, u, "none">> : c \in 1..(Len(contents) + 1), u \in UpdateInputs}
    \cup {<<c, 1, NoUpdates, "save">> : c \in 1..Len(contents)}
    \cup {<<InvalidId, 1, NoUpdates, "none">>, <<1, InvalidId, NoUpdates, "none">>}

GetVersionInputs ==
    UNION {{<<c, n>> : n \in 0..(Len(contents[c].versions) + 1)} :
             c \in 1..Len(contents)}
    \cup {<<InvalidId, 1>>, <<Len(contents) + 1, 1>>}

Next ==
    \/ \E title \in {"", "T1"} : CreateContent(title, "D1")
    \/ \E body \in {"ok", "missing"}, cid \in {Undefined} \cup ContentIdInputs :
           CreateResource(body, cid)
    \/ \E cid \in ContentIdInputs : UploadResource(cid)
    \/ \E rid \in ResourceIdInputs : DeleteResource(rid)
    \/ \E i \in LinkInputs : Link(i[1], i[2], i[3], i[4])
    \/ \E i \in CreateVersionInputs : CreateVersion(i[1], i[2], i[3], <<"edit">>, i[4])
    \/ \E i \in GetVersionInputs : GetVersion(i[1], i[2])
    \/ \E cid \in ContentIdInputs : ListVersions(cid)

Spec == Init /\ [][Next]_vars

NextCache ==
    \/ \E params \in SearchInputs : GetCachedResult(params)
    \/ \E params \in SearchInputs, found \in ResultLists : CacheResult(params, found)
    \/ Tick

SpecCache == Init /\ [][NextCache]_vars

(***************************************************************************)
(* ResourceService.findResources, called on a long-lived service instance  *)
(* ("service", its cache is resourceCache) or by the route                 *)
(* POST /:id/resources ("route"), which builds a new ResourceService, with *)
(* an empty cache, for every request.                                      *)
(*                                                                         *)
(* A resource list is the sequence of its urls.  The call suspends at      *)
(* await suggestResourcesWithAI, where other calls run; everything else    *)
(* runs without interruption.  In the record of a call, params is the      *)
(* request as the caller passed it and topics is params.topics of the      *)
(* caller's object as the call has left it.                                *)
(***************************************************************************)
MaxPending == 2       \* calls suspended at the same time

\* a url is what url.includes('example.com') says of it: ExampleUrl includes
\* it, RealUrl (a working url, or a made-up one of another host) does not
ExampleUrl == "example.com"
RealUrl == "real"

\* Math.floor(Math.random() * 6) + 5: one value of the range 5..10
MockCounts == {5}

SearchParam(topics, limitFields, limit, syllabusText, useRealUrls) ==
    [topics |-> topics, query |-> <<"q">>, fields |-> limitFields, type |-> <<>>,
     limit |-> limit, syllabusText |-> syllabusText, useRealUrls |-> useRealUrls]

\* params after generateCacheKey has run on it: topics.sort() sorts in place
SortedInPlace(params) == [params EXCEPT !.topics = SortTopics(@)]

\* getMockResources: params.limit || random resources, each with a url
MockResources(params, random) ==
    LET resourceCount == IF "limit" \in params.fields /\ params.limit # 0
                         THEN params.limit ELSE random
    IN [i \in 1..resourceCount |->
           IF params.useRealUrls THEN RealUrl ELSE ExampleUrl]

\* what suggestResourcesWithAI resolves to: the parsed list, or [] when the
\* model call fails or its answer is not a list of resources
Suggestions == {<<>>, <<ExampleUrl>>, <<RealUrl>>}

\* the cache of the instance the call runs on
InstanceCache(via) == IF via = "service" THEN resourceCache ELSE <<>>

\* params.useRealUrls && cachedResults[0].url.includes('example.com')
SkipsCache(params, cachedResults) ==
    params.useRealUrls /\ cachedResults[1] = ExampleUrl

\* the model is never consulted
NeverAsks(params) == FALSE

\* params.topics && params.topics.length > 0 && params.syllabusText
AsksModel(params) == Len(params.topics) > 0 /\ params.syllabusText # ""

\* findResources up to its first await, or to its end when it has none
FindResourcesStart(via, params, random) ==
    LET cache == InstanceCache(via)
        key == GenerateCacheKey(params)
        cached == CachedResult(cache, params, now)
        call == [NoCall EXCEPT !.op = "findResources", !.via = via,
                               !.key = key, !.params = params,
                               !.topics = SortedInPlace(params).topics]
        mock == MockResources(params, random)
    IN
    /\ IF cached # <<>> /\ params.useRealUrls /\ cached[1] = <<>>
       THEN \* cachedResults[0] is undefined: a TypeError outside the try block
            /\ last' = [call EXCEPT !.result = "error"]
            /\ UNCHANGED <<resourceCache, stored, pending>>
       ELSE IF cached # <<>> /\ ~SkipsCache(params, cached[1])
       THEN /\ last' = [call EXCEPT !.result = "cached", !.found = cached]
            /\ UNCHANGED <<resourceCache, stored, pending>>
       ELSE IF AsksModel(params)
       THEN /\ Len(pending) < MaxPending
            /\ pending' = Append(pending,
                   [op |-> "findResources", via |-> via, asked |-> params,
                    params |-> SortedInPlace(params),
                    missed |-> FindEntry(cache, key) = <<>>])
            /\ last' = [call EXCEPT !.result = "awaiting"]
            /\ UNCHANGED <<resourceCache, stored>>
       ELSE /\ IF via = "service"
               THEN /\ resourceCache' = StoreResult(resourceCache, params, mock, now)
                    /\ stored' = Append(SelectSeq(stored, LAMBDA k : k # key), key)
               ELSE UNCHANGED <<resourceCache, stored>>
            /\ last' = [call EXCEPT !.result = "mock", !.found = <<mock>>]
            /\ UNCHANGED pending
    /\ UNCHANGED <<dbVars, now>>


RemoveAt(seq, i) == SubSeq(seq, 1, i - 1) \o SubSeq(seq, i + 1, Len(seq))

\* findResources from the point where suggestResourcesWithAI has resolved
FindResourcesResume(i, suggestions, random) ==
    LET p == pending[i]
        key == GenerateCacheKey(p.params)
        found == IF Len(suggestions) > 0 THEN suggestions
                 ELSE MockResources(p.params, random)
    IN
    /\ p.op = "findResources"
    /\ pending' = RemoveAt(pending, i)
    /\ IF p.via = "service"
       THEN /\ resourceCache' = StoreResult(resourceCache, p.params, found, now)
            /\ stored' = Append(SelectSeq(stored, LAMBDA k : k # key), key)
       ELSE UNCHANGED <<resourceCache, stored>>
    /\ last' = [NoCall EXCEPT
                  !.op = "findResources", !.via = p.via, !.key = key,
                  !.params = p.asked, !.topics = p.params.topics,
                  !.found = <<found>>,
                  !.result = IF Len(suggestions) > 0 THEN "suggested" ELSE "fallback",
                  !.again = /\ p.via = "service" /\ p.missed
                            /\ FindEntry(resourceCache, key) # <<>>]
    /\ UNCHANGED <<dbVars, now>>

\* router.post('/:id/resources'): subject is what Subject.findById finds for
\* req.params.id, the syllabus text of the subject when there is one
RouteSubjects == {"invalid", "missing", "", "S"}

RouteSearch(subject, topics, useRealUrls, random) ==
    IF subject \in {"invalid", "missing"}
    THEN /\ last' = [NoCall EXCEPT !.op = "findResources", !.via = "route",
                                   !.result = "error"]
         /\ UNCHANGED <<dbVars, now, resourceCache, stored, pending>>
    ELSE FindResourcesStart("route",
             SearchParam(topics, {"limit"}, 10, subject, useRealUrls), random)

\* did the call whose record this is call the generative model
CalledModel(call) == call.result \in {"awaiting", "suggested", "fallback"}

\* did the call whose record this is store a result in its instance's cache
StoredResult(call) == call.result \in {"mock", "suggested", "fallback"}

TopicLists == {<<<<"a">>, <<"b">>>>, <<<<"b">>, <<"a">>>>}

ServiceSearchInputs ==
    {SearchParam(t, {}, 0, "S", u) : t \in TopicLists, u \in BOOLEAN}
    \cup {SearchParam(<<<<"a">>>>, {}, 0, "", FALSE)}

NextSearch ==
    \/ \E params \in ServiceSearchInputs, random \in MockCounts :
           FindResourcesStart("service", params, random)
    \/ \E i \in DOMAIN pending, suggestions \in Suggestions, random \in MockCounts :
           FindResourcesResume(i, suggestions, random)
    \/ Tick

SpecSearch == Init /\ [][NextSearch]_vars

NextRoute ==
    \/ \E subject \in RouteSubjects, topics \in TopicLists, useRealUrls \in BOOLEAN,
          random \in MockCounts :
           RouteSearch(subject, topics, useRealUrls, random)
    \/ \E i \in DOMAIN pending, suggestions \in Suggestions, random \in MockCounts :
           FindResourcesResume(i, suggestions, random)
    \/ Tick

SpecRoute == Init /\ [][NextRoute]_vars

\* findResources on one service instance for requests that give a limit (a
\* positive one, zero, or a negative one) and no syllabus text, so that the
\* result comes from getMockResources
LimitInputs == {0 - 1, 0, 2}

LimitSearchInputs ==
    {SearchParam(<<<<"a">>>>, {"limit"}, n, "", u) : n \in LimitInputs, u \in BOOLEAN}

NextLimit ==
    \/ \E params \in LimitSearchInputs, random \in MockCounts :
           FindResourcesStart("service", params, random)
    \/ Tick

SpecLimit == Init /\ [][NextLimit]_vars

(***************************************************************************)
(* ResourceService.generateCacheKey as a function of the request.          *)
(***************************************************************************)
MaxTopics == 3        \* topics of a request

TopicNames == {<<"a">>, <<"b">>, <<"a", "b">>}

RECURSIVE SeqsUpTo(_, _)
SeqsUpTo(S, n) ==
    IF n = 0 THEN {<<>>}
    ELSE LET shorter == SeqsUpTo(S, n - 1) IN
         shorter \cup {Append(t, x) : t \in shorter, x \in S}

KeyInputs ==
    {[topics |-> t, query |-> <<"q">>, fields |-> f, type |-> <<"p", "d", "f">>,
      limit |-> l] :
        t \in SeqsUpTo(TopicNames, MaxTopics),
        f \in {{}, {"type"}, {"limit"}},
        l \in {0, 5}}

GenerateCacheKeyCall(params) ==
    /\ last' = [NoCall EXCEPT !.op = "generateCacheKey", !.params = params,
                              !.key = GenerateCacheKey(params)]
    /\ UNCHANGED <<dbVars, now, resourceCache, stored, pending>>

NextKey == \E params \in KeyInputs : GenerateCacheKeyCall(params)

SpecKey == Init /\ [][NextKey]_vars

\* generateCacheKey for requests that differ in any of their parts: the
\* topics (one of them holds a comma), the query, the type and the limit,
\* each given or not
FingerprintInputs ==
    {[topics |-> t, query |-> q, fields |-> f, type |-> ty, limit |-> l] :
        t \in {<<<<"a", ",", "b">>>>, <<<<"a">>, <<"b">>>>, <<<<"b">>, <<"a">>>>,
               <<<<"a">>>>, <<>>},
        q \in {<<"q">>, <<>>},
        f \in SUBSET {"type", "limit"},
        ty \in {<<"a", "l", "l">>, <<"p", "d", "f">>},
        l \in {0, 5, 10}}

NextFingerprint == \E params \in FingerprintInputs : GenerateCacheKeyCall(params)

SpecFingerprint == Init /\ [][NextFingerprint]_vars

(***************************************************************************)
(* ContentGenerator: the recovery of an object from the model's response.  *)
(*                                                                         *)
(* A text is a sequence of tokens: a token is one character that is no     *)
(* word character (a brace, a bracket, a colon, a comma, a quote, a space, *)
(* a newline, ...), a code fence ```, or a maximal run of word characters  *)
(* (\w+), so that the regular expressions of the code are computed on it   *)
(* as on the characters.  The texts used are shorter than the 1000         *)
(* characters createContentFromText keeps.                                 *)
(***************************************************************************)
Quote == "\""
Fence == "FENCE"           \* the three backquotes of a code block
Newline == "\n"
Space == " "
SpaceTokens == {Space, Newline}
OtherTokens == {"{", "}", "[", "]", ":", ",", Quote, Fence, "."}

\* \s
IsSpace(t) == t \in SpaceTokens
\* \w+
IsWord(t) == t \notin SpaceTokens \cup OtherTokens

\* the least j >= i with text[j] in S, or 0
RECURSIVE IndexFrom(_, _, _)
IndexFrom(text, i, S) ==
    IF i > Len(text) THEN 0
    ELSE IF text[i] \in S THEN i
    ELSE IndexFrom(text, i + 1, S)

\* the greatest j <= i with text[j] = t, or 0
RECURSIVE LastIndexOf(_, _, _)
LastIndexOf(text, i, t) ==
    IF i < 1 THEN 0
    ELSE IF text[i] = t THEN i
    ELSE LastIndexOf(text, i - 1, t)

\* the least j >= i that is past the end or at a token that is no space
RECURSIVE SkipSpace(_, _)
SkipSpace(text, i) ==
    IF i > Len(text) THEN i
    ELSE IF IsSpace(text[i]) THEN SkipSpace(text, i + 1)
    ELSE i

\* String.prototype.trim
RECURSIVE TrimEnd(_)
TrimEnd(text) ==
    IF text = <<>> THEN <<>>
    ELSE IF IsSpace(text[Len(text)]) THEN TrimEnd(SubSeq(text, 1, Len(text) - 1))
    ELSE text
Trim(text) == TrimEnd(SubSeq(text, SkipSpace(text, 1), Len(text)))

\* text.match(/```(?:json)?\s*([\s\S]*?)\s*```/)[1], <<>> without a match
FencedBlock(text) ==
    LET open == IndexFrom(text, 1, {Fence})
        body == IF open > 0 /\ open < Len(text) /\ text[open + 1] = "json"
                THEN open + 2 ELSE open + 1
        close == IF open = 0 THEN 0 ELSE IndexFrom(text, body, {Fence})
    IN IF close = 0 THEN <<>>
       ELSE TrimEnd(SubSeq(text, SkipSpace(text, body), close - 1))

\* text.match(/\{[\s\S]*\}/)[0], <<>> without a match
BraceSpan(text) ==
    LET opening == IndexFrom(text, 1, {"{"})
        closing == LastIndexOf(text, Len(text), "}")
    IN IF opening > 0 /\ closing > opening THEN SubSeq(text, opening, closing)
       ELSE <<>>

ExtractJsonFromText(text) ==
    IF FencedBlock(text) # <<>> THEN Trim(FencedBlock(text))
    ELSE IF BraceSpan(text) # <<>> THEN BraceSpan(text)
    ELSE text

\* the token at i, or "" past the end
At(text, i) == IF i \in 1..Len(text) THEN text[i] ELSE ""

\* replace(/:\s*"([^"]*?)(?:\n|$)/g, ': "$1",\n'): a string that runs to the
\* end of its line is closed and followed by a comma
RECURSIVE CloseStrings(_, _)
CloseStrings(text, i) ==
    IF i > Len(text) THEN <<>>
    ELSE
    LET q == SkipSpace(text, i + 1)
        stop == IndexFrom(text, q + 1, {Quote, Newline})
    IN IF text[i] = ":" /\ At(text, q) = Quote /\ At(text, stop) # Quote
       THEN <<":", Space, Quote>>
              \o SubSeq(text, q + 1, IF stop = 0 THEN Len(text) ELSE stop - 1)
              \o <<Quote, ",", Newline>>
              \o (IF stop = 0 THEN <<>> ELSE CloseStrings(text, stop + 1))
       ELSE <<text[i]>> \o CloseStrings(text, i + 1)

\* replace(/(\s*)(\w+)(\s*):/g, '$1"$2"$3:'): a word before a colon is quoted
RECURSIVE QuoteKeys(_, _)
QuoteKeys(text, i) ==
    IF i > Len(text) THEN <<>>
    ELSE IF IsWord(text[i]) /\ At(text, SkipSpace(text, i + 1)) = ":"
         THEN <<Quote, text[i], Quote>> \o QuoteKeys(text, i + 1)
    ELSE <<text[i]>> \o QuoteKeys(text, i + 1)

\* replace(/,(\s*[\]}])/g, '$1'): a comma before a closing bracket is dropped
RECURSIVE DropTrailingCommas(_, _)
DropTrailingCommas(text, i) ==
    IF i > Len(text) THEN <<>>
    ELSE IF text[i] = "," /\ At(text, SkipSpace(text, i + 1)) \in {"]", "}"}
         THEN DropTrailingCommas(text, i + 1)
    ELSE <<text[i]>> \o DropTrailingCommas(text, i + 1)

\* replace(/("[^"]*":\s*"[^"]*"(?:\s*\n)?)\s*"/g, '$1,"'): a comma is put
\* between a string property and the quote that follows it
RECURSIVE InsertCommas(_, _)
InsertCommas(text, i) ==
    IF i > Len(text) THEN <<>>
    ELSE
    LET keyEnd == IndexFrom(text, i + 1, {Quote})
        valueStart == SkipSpace(text, keyEnd + 2)
        valueEnd == IndexFrom(text, valueStart + 1, {Quote})
        nextQuote == SkipSpace(text, valueEnd + 1)
        lastNewline == LastIndexOf(text, nextQuote - 1, Newline)
    IN IF /\ text[i] = Quote /\ keyEnd > 0 /\ At(text, keyEnd + 1) = ":"
          /\ At(text, valueStart) = Quote /\ valueEnd > 0
          /\ At(text, nextQuote) = Quote
       THEN SubSeq(text, i, IF lastNewline > valueEnd THEN lastNewline ELSE valueEnd)
              \o <<",", Quote>> \o InsertCommas(text, nextQuote + 1)
       ELSE <<text[i]>> \o InsertCommas(text, i + 1)

\* if (openBraces > closeBraces) cleanedJson += '}'
BalanceBraces(text) ==
    IF Count(text, "{") > Count(text, "}") THEN Append(text, "}") ELSE text

\* cleanedJson of safeJsonParse
CleanJson(jsonText) ==
    BalanceBraces(InsertCommas(DropTrailingCommas(
        QuoteKeys(CloseStrings(jsonText, 1), 1), 1), 1))

(***************************************************************************)
(* JSON.parse.  A value is a record [t, s, items]: t its type, s the tokens *)
(* of a string or a number, items the members [k, v] of an object in       *)
(* insertion order or the elements of an array (members with the key       *)
(* <<>>).  SyntaxError stands for the exception.                           *)
(***************************************************************************)
JsonLiterals == {"null", "true", "false"}
JsonNumbers == {"1", "2", "10", "30"}
JsonAtom(type, tokens) == [t |-> type, s |-> tokens, items |-> <<>>]
SyntaxError == JsonAtom("SyntaxError", <<>>)
JsonNull == JsonAtom("null", <<>>)
JsonString(tokens) == JsonAtom("string", tokens)
JsonArray(elements) ==
    [t |-> "array", s |-> <<>>,
     items |-> [i \in 1..Len(elements) |-> [k |-> <<>>, v |-> elements[i]]]]
JsonObject(members) == [t |-> "object", s |-> <<>>, items |-> members]
ParseFailed == [ok |-> FALSE, val |-> SyntaxError, next |-> 0]
Parsed(val, next) == [ok |-> TRUE, val |-> val, next |-> next]

\* obj[k] = v: a repeated key keeps its place and takes the later value
SetMember(members, k, v) ==
    IF \E i \in 1..Len(members) : members[i].k = k
    THEN [i \in 1..Len(members) |->
             IF members[i].k = k THEN [k |-> k, v |-> v] ELSE members[i]]
    ELSE Append(members, [k |-> k, v |-> v])

RECURSIVE ParseValue(_, _)
RECURSIVE ParseMembers(_, _, _)
RECURSIVE ParseElements(_, _, _)

ParseValue(text, from) ==
    LET i == SkipSpace(text, from)
        t == At(text, i)
        strEnd == IndexFrom(text, i + 1, {Quote, Newline})
        inner == SkipSpace(text, i + 1)
    IN CASE t = Quote ->
              IF At(text, strEnd) = Quote
              THEN Parsed(JsonString(SubSeq(text, i + 1, strEnd - 1)), strEnd + 1)
              ELSE ParseFailed
         [] t = "{" ->
              IF At(text, inner) = "}" THEN Parsed(JsonObject(<<>>), inner + 1)
              ELSE ParseMembers(text, inner, <<>>)
         [] t = "[" ->
              IF At(text, inner) = "]" THEN Parsed(JsonArray(<<>>), inner + 1)
              ELSE ParseElements(text, inner, <<>>)
         [] t \in JsonLiterals -> Parsed(JsonAtom(t, <<>>), i + 1)
         [] t \in JsonNumbers -> Parsed(JsonAtom("number", <<t>>), i + 1)
         [] OTHER -> ParseFailed

ParseMembers(text, from, members) ==
    LET key == ParseValue(text, from)
        colon == SkipSpace(text, key.next)
        value == ParseValue(text, colon + 1)
        after == SkipSpace(text, value.next)
        all == SetMember(members, key.val.s, value.val)
    IN IF ~key.ok \/ key.val.t # "string" \/ At(text, colon) # ":" THEN ParseFailed
       ELSE IF ~value.ok THEN ParseFailed
       ELSE IF At(text, after) = "," THEN ParseMembers(text, after + 1, all)
       ELSE IF At(text, after) = "}" THEN Parsed(JsonObject(all), after + 1)
       ELSE ParseFailed

ParseElements(text, from, elements) ==
    LET value == ParseValue(text, from)
        after == SkipSpace(text, value.next)
        all == Append(elements, value.val)
    IN IF ~value.ok THEN ParseFailed
       ELSE IF At(text, after) = "," THEN ParseElements(text, after + 1, all)
       ELSE IF At(text, after) = "]" THEN Parsed(JsonArray(all), after + 1)
       ELSE ParseFailed

JsonParse(text) ==
    LET r == ParseValue(text, 1) IN
    IF r.ok /\ SkipSpace(text, r.next) > Len(text) THEN r.val ELSE SyntaxError

(***************************************************************************)
(* createContentFromText and safeJsonParse                                 *)
(***************************************************************************)
\* replace(/```json|```/g, '')
RECURSIVE RemoveFences(_, _)
RemoveFences(text, i) ==
    IF i > Len(text) THEN <<>>
    ELSE IF text[i] = Fence
         THEN RemoveFences(text, IF At(text, i + 1) = "json" THEN i + 2 ELSE i + 1)
    ELSE <<text[i]>> \o RemoveFences(text, i + 1)

\* replace(/^\s*\{\s*|\}\s*$/g, '')
StripOuterBraces(text) ==
    LET opening == SkipSpace(text, 1)
        front == IF At(text, opening) = "{"
                 THEN SubSeq(text, SkipSpace(text, opening + 1), Len(text))
                 ELSE text
        back == TrimEnd(front)
    IN IF back # <<>> /\ back[Len(back)] = "}"
       THEN SubSeq(back, 1, Len(back) - 1)
       ELSE front

\* includes('"content":')
RECURSIVE IncludesContentKey(_, _)
IncludesContentKey(text, i) ==
    IF i > Len(text) THEN FALSE
    ELSE \/ /\ text[i] = Quote /\ At(text, i + 1) = "content"
            /\ At(text, i + 2) = Quote /\ At(text, i + 3) = ":"
         \/ IncludesContentKey(text, i + 1)

\* match(/"content"\s*:\s*"((?:[^"\\]|\\.)*)"/)[1], <<>> without a match
RECURSIVE ContentMatch(_, _)
ContentMatch(text, i) ==
    IF i > Len(text) THEN <<>>
    ELSE
    LET colon == SkipSpace(text, i + 3)
        opening == SkipSpace(text, colon + 1)
        closing == IndexFrom(text, opening + 1, {Quote})
    IN IF /\ text[i] = Quote /\ At(text, i + 1) = "content" /\ At(text, i + 2) = Quote
          /\ At(text, colon) = ":" /\ At(text, opening) = Quote /\ closing > 0
       THEN SubSeq(text, opening + 1, closing - 1)
       ELSE ContentMatch(text, i + 1)

\* `Content for ${topic} based on your materials.`
DefaultContent(topic) ==
    <<"Content", Space, "for", Space>> \o topic
      \o <<Space, "based", Space, "on", Space, "your", Space, "materials", ".">>

CreateContentFromText(text, topic) ==
    LET cleanContent == StripOuterBraces(RemoveFences(text, 1))
        content == IF IncludesContentKey(cleanContent, 1)
                   THEN IF ContentMatch(cleanContent, 1) # <<>>
                        THEN ContentMatch(cleanContent, 1)
                        ELSE DefaultContent(topic)
                   ELSE cleanContent
    IN JsonObject(<<
         [k |-> <<"content">>, v |-> JsonString(content)],
         [k |-> <<"keyPoints">>,
          v |-> JsonArray(<<
                  JsonString(<<"Key", Space, "points", Space, "for", Space>> \o topic),
                  JsonString(<<"Understanding", Space, "core", Space, "concepts">>),
                  JsonString(<<"Practical", Space, "applications">>)>>)],
         [k |-> <<"examples">>, v |-> JsonArray(<<>>)],
         [k |-> <<"references">>, v |-> JsonArray(<<>>)]>>)

SafeJsonParse(text, topic) ==
    LET cleanedJson == CleanJson(ExtractJsonFromText(text))
    IN IF JsonParse(cleanedJson) = SyntaxError
       THEN CreateContentFromText(text, topic)
       ELSE JsonParse(cleanedJson)

\* the stage of safeJsonParse that gave the value: the parse of a text the
\* replacements left as it was, the parse of a text they changed, or
\* createContentFromText
RecoveryTier(text) ==
    LET jsonText == ExtractJsonFromText(text)
    IN IF JsonParse(CleanJson(jsonText)) = SyntaxError THEN "heuristic"
       ELSE IF CleanJson(jsonText) = jsonText THEN "exact"
       ELSE "repaired"

(***************************************************************************)
(* ContentGenerator.generateLectureOutline / enhanceContent                *)
(*                                                                         *)
(* response is what the model call gives: it rejects, or resolves to a     *)
(* text.                                                                   *)
(***************************************************************************)
JsonUndefined == JsonAtom("undefined", <<>>)

\* value[key]
Member(value, key) ==
    IF value.t = "object" /\ \E i \in 1..Len(value.items) : value.items[i].k = key
    THEN value.items[CHOOSE i \in 1..Len(value.items) : value.items[i].k = key].v
    ELSE JsonUndefined

\* the truthiness a || b tests
Truthy(value) ==
    /\ value.t \notin {"undefined", "null", "false"}
    /\ ~(value.t = "string" /\ value.s = <<>>)

OrElse(value, default) == IF Truthy(value) THEN value ELSE default

Failed == [result |-> "error", value |-> JsonUndefined]
Returned(value) == [result |-> "ok", value |-> value]

GenerateLectureOutlineRun(title, response) ==
    IF response.rejects \/ response.text = <<>>
    THEN Failed   \* 'Empty response from AI model', rethrown by the catch block
    ELSE
    LET parsedResponse == SafeJsonParse(response.text, title) IN
    IF parsedResponse.t = "null"
    THEN Failed   \* TypeError on parsedResponse.sections, rethrown as well
    ELSE Returned(JsonObject(<<
           [k |-> <<"title">>, v |-> JsonString(title)],
           [k |-> <<"sections">>,
            v |-> OrElse(Member(parsedResponse, <<"sections">>), JsonArray(<<>>))],
           [k |-> <<"keyPoints">>,
            v |-> OrElse(Member(parsedResponse, <<"keyPoints">>), JsonArray(<<>>))],
           [k |-> <<"examples">>,
            v |-> OrElse(Member(parsedResponse, <<"examples">>), JsonArray(<<>>))],
           [k |-> <<"exercises">>,
            v |-> OrElse(Member(parsedResponse, <<"exercises">>), JsonArray(<<>>))]>>))

EnhanceContentRun(existingContent, response) ==
    IF response.rejects \/ response.text = <<>>
    THEN Failed
    ELSE
    LET title == Member(existingContent, <<"title">>)
        parsedResponse == SafeJsonParse(response.text, title.s) IN
    IF parsedResponse.t = "null"
    THEN Failed
    ELSE Returned(JsonObject(<<
           [k |-> <<"title">>, v |-> title],
           [k |-> <<"content">>,
            v |-> OrElse(Member(parsedResponse, <<"content">>),
                         Member(existingContent, <<"content">>))],
           [k |-> <<"keyPoints">>,
            v |-> OrElse(Member(parsedResponse, <<"keyPoints">>),
                         Member(existingContent, <<"keyPoints">>))],
           [k |-> <<"examples">>,
            v |-> OrElse(Member(parsedResponse, <<"examples">>),
                         Member(existingContent, <<"examples">>))],
           [k |-> <<"references">>,
            v |-> OrElse(Member(parsedResponse, <<"references">>),
                         Member(existingContent, <<"references">>))]>>))

(***************************************************************************)
(* The responses of the model: a JSON value written out on one line or one *)
(* member per line, bare or wrapped in a code fence or in commentary, as   *)
(* it is or with one defect.                                               *)
(***************************************************************************)
Styles == {Space, Newline}

RECURSIVE Stringify(_, _)
RECURSIVE StringifyAll(_, _, _)

\* the elements or members written out from the i-th on, separated by commas
StringifyAll(value, i, style) ==
    IF i > Len(value.items) THEN <<>>
    ELSE (IF value.t = "object"
          THEN <<Quote>> \o value.items[i].k \o <<Quote, ":", Space>> ELSE <<>>)
         \o Stringify(value.items[i].v, style)
         \o (IF i < Len(value.items)
             THEN <<",", IF value.t = "object" THEN style ELSE Space>> ELSE <<>>)
         \o StringifyAll(value, i + 1, style)

Stringify(value, style) ==
    CASE value.t = "string" -> <<Quote>> \o value.s \o <<Quote>>
      [] value.t = "number" -> value.s
      [] value.t = "array" -> <<"[">> \o StringifyAll(value, 1, style) \o <<"]">>
      [] value.t = "object" ->
           IF style = Newline /\ value.items # <<>>
           THEN <<"{", Newline>> \o StringifyAll(value, 1, style) \o <<Newline, "}">>
           ELSE <<"{">> \o StringifyAll(value, 1, style) \o <<"}">>
      [] OTHER -> <<value.t>>

Text(word) == JsonString(<<word>>)
Prop(key, value) == [k |-> <<key>>, v |-> value]

\* the objects a response may hold
PayloadObjects ==
    { JsonObject(<<Prop("title", Text("Intro")),
                   Prop("subtopics", JsonArray(<<Text("A"), Text("B")>>))>>),
      JsonObject(<<Prop("sections", JsonArray(<<Text("A")>>)),
                   Prop("keyPoints", JsonArray(<<Text("B")>>))>>),
      JsonObject(<<Prop("keyPoints", JsonArray(<<Text("A")>>)),
                   Prop("content", Text("abc"))>>),
      JsonObject(<<Prop("content", JsonString(<<"Note", ":", Space, "abc">>))>>),
      JsonObject(<<Prop("sections", Text("abc"))>>) }

\* the other values a response may hold
PayloadValues ==
    PayloadObjects
    \cup { JsonNull, Text("abc"),
           JsonArray(<<JsonObject(<<Prop("title", Text("A"))>>),
                       JsonObject(<<Prop("title", Text("B"))>>)>>) }

Wrappings == {"bare", "fenced", "fencedJson", "commentedFence", "commented"}

Wrap(payload, wrapping) ==
    CASE wrapping = "fenced" -> <<Fence, Newline>> \o payload \o <<Newline, Fence>>
      [] wrapping = "fencedJson" ->
           <<Fence, "json", Newline>> \o payload \o <<Newline, Fence>>
      [] wrapping = "commentedFence" ->
           <<"Here", Space, "is", Space, "your", Space, "result", ":", Newline,
             Fence, "json", Newline>> \o payload \o <<Newline, Fence>>
      [] wrapping = "commented" ->
           <<"Result", ":", Space>> \o payload \o <<Space, "Done", ".">>
      [] OTHER -> payload

InsertAt(text, i, t) == SubSeq(text, 1, i - 1) \o <<t>> \o SubSeq(text, i, Len(text))

\* the greatest j <= i that is before the start or at a token that is no space
RECURSIVE SkipSpaceBack(_, _)
SkipSpaceBack(text, i) ==
    IF i < 1 THEN i
    ELSE IF IsSpace(text[i]) THEN SkipSpaceBack(text, i - 1)
    ELSE i

\* one comma put before a closing bracket or brace that ends a non-empty list
WithTrailingComma(text) ==
    {InsertAt(text, SkipSpaceBack(text, i - 1) + 1, ",") :
        i \in {j \in 1..Len(text) :
                 /\ text[j] \in {"]", "}"}
                 /\ At(text, SkipSpaceBack(text, j - 1)) \notin {"[", "{"}}}

\* one key without its quotes
WithUnquotedKey(text) ==
    {SubSeq(text, 1, i - 1) \o <<text[i + 1]>> \o SubSeq(text, i + 3, Len(text)) :
        i \in {j \in 1..Len(text) :
                 /\ text[j] = Quote /\ IsWord(At(text, j + 1))
                 /\ At(text, j + 2) = Quote /\ At(text, j + 3) = ":"}}

\* the last string without its closing quote, or the text cut off after it
WithUnterminatedString(text) ==
    LET closing == LastIndexOf(text, Len(text), Quote) IN
    IF closing = 0 \/ \E j \in (closing + 1)..Len(text) :
                         text[j] \notin SpaceTokens \cup {"]", "}"}
    THEN {}
    ELSE {RemoveAt(text, closing), SubSeq(text, 1, closing - 1)}

Defective(text) ==
    {[text |-> t, defect |-> "trailingComma"] : t \in WithTrailingComma(text)}
    \cup {[text |-> t, defect |-> "unquotedKey"] : t \in WithUnquotedKey(text)}
    \cup {[text |-> t, defect |-> "unterminated"] : t \in WithUnterminatedString(text)}

Response(text, payload, defect, rejects) ==
    [text |-> text, payload |-> payload, defect |-> defect, rejects |-> rejects]

\* commentary on the payload's line is put around objects only
WellFormedResponses ==
    {Response(Wrap(Stringify(v, style), w), v, "none", FALSE) :
        v \in PayloadObjects, style \in Styles, w \in Wrappings}
    \cup {Response(Wrap(Stringify(v, Space), w), v, "none", FALSE) :
            v \in PayloadValues, w \in Wrappings \ {"commented"}}

DefectiveResponses ==
    UNION {{Response(Wrap(d.text, w), v, d.defect, FALSE) :
              d \in Defective(Stringify(v, style)), w \in {"bare", "commentedFence"}} :
           v \in PayloadObjects, style \in Styles}

OtherResponses ==
    { Response(<<>>, JsonUndefined, "none", FALSE),
      Response(<<>>, JsonUndefined, "none", TRUE),
      Response(<<"Sorry", ",", Space, "no", Space, "outline", ".">>, JsonUndefined,
               "none", FALSE) }

Responses == WellFormedResponses \cup DefectiveResponses \cup OtherResponses

ExistingContent ==
    JsonObject(<<Prop("title", Text("Intro")), Prop("content", Text("old")),
                 Prop("keyPoints", JsonArray(<<Text("K")>>)),
                 Prop("examples", JsonArray(<<>>)),
                 Prop("references", JsonArray(<<>>))>>)

\* the model has answered: the response waits for the call that reads it
InitRecover ==
    /\ resources = <<>>
    /\ contents = <<>>
    /\ calls = 0
    /\ now = 0
    /\ resourceCache = <<>>
    /\ stored = <<>>
    /\ pending = <<>>
    /\ last \in {[NoCall EXCEPT !.op = "response", !.params = r] : r \in Responses}

SafeJsonParseCall ==
    /\ last.op = "response" /\ ~last.params.rejects /\ last.params.text # <<>>
    /\ last' = [last EXCEPT
                  !.op = "safeJsonParse",
                  !.found = <<SafeJsonParse(last.params.text, <<"Intro">>)>>,
                  !.result = RecoveryTier(last.params.text)]
    /\ UNCHANGED <<dbVars, now, resourceCache, stored, pending>>

GenerateLectureOutline ==
    LET out == GenerateLectureOutlineRun(<<"Intro">>, last.params) IN
    /\ last.op = "response"
    /\ last' = [last EXCEPT !.op = "generateLectureOutline",
                            !.found = <<out.value>>, !.result = out.result]
    /\ UNCHANGED <<dbVars, now, resourceCache, stored, pending>>

EnhanceContent ==
    LET out == EnhanceContentRun(ExistingContent, last.params) IN
    /\ last.op = "response"
    /\ last' = [last EXCEPT !.op = "enhanceContent",
                            !.found = <<out.value>>, !.result = out.result]
    /\ UNCHANGED <<dbVars, now, resourceCache, stored, pending>>

NextRecover ==
    \/ SafeJsonParseCall
    \/ GenerateLectureOutline
    \/ EnhanceContent

SpecRecover == InitRecover /\ [][NextRecover]_vars

(***************************************************************************)
(* SyllabusAnalyzer.analyzeSyllabus: the value GeminiService.generateContent*)
(* has parsed from the model's answer is passed through                    *)
(* transformToAnalyzedSyllabus and then checked by                         *)
(* validateSyllabusResponse.                                               *)
(***************************************************************************)
IsArray(value) == value.t = "array"
IsNumber(value) == value.t = "number"

\* a number below 10
JsonNumber(n) == JsonAtom("number", <<Digit[n + 1]>>)

ValidateSyllabusResponse(data) ==
    /\ IsArray(Member(data, <<"topics">>))
    /\ IsNumber(Member(data, <<"totalDuration">>))
    /\ IsArray(Member(data, <<"courseObjectives">>))
    /\ IsArray(Member(data, <<"prerequisites">>))

\* reading a property of null or undefined is a TypeError
HasNoProperties(value) == value.t \in {"null", "undefined"}

UntitledTopic == JsonString(<<"Untitled", Space, "Topic">>)

\* the topic built for a response that has courseInfo, topics and objectives
TopicOfCourse(topic, objectives) ==
    JsonObject(<<
      Prop("title", OrElse(Member(topic, <<"title">>), UntitledTopic)),
      Prop("subtopics", OrElse(Member(topic, <<"subtopics">>), JsonArray(<<>>))),
      Prop("estimatedDuration", JsonNumber(2)),
      Prop("learningObjectives", objectives)>>)

\* the topic built for a response of another structure
AdaptedTopic(t) ==
    LET subtopics == Member(t, <<"subtopics">>)
        estimatedDuration == Member(t, <<"estimatedDuration">>)
        learningObjectives == Member(t, <<"learningObjectives">>)
    IN JsonObject(<<
      Prop("title", OrElse(Member(t, <<"title">>), UntitledTopic)),
      Prop("subtopics", IF IsArray(subtopics) THEN subtopics ELSE JsonArray(<<>>)),
      Prop("estimatedDuration",
           IF IsNumber(estimatedDuration) THEN estimatedDuration ELSE JsonNumber(2)),
      Prop("learningObjectives",
           IF IsArray(learningObjectives) THEN learningObjectives
           ELSE JsonArray(<<>>))>>)

TransformToAnalyzedSyllabus(data) ==
    LET topics == Member(data, <<"topics">>)
        objectives == Member(data, <<"objectives">>)
        totalDuration == Member(data, <<"totalDuration">>)
        courseObjectives == Member(data, <<"courseObjectives">>)
        prerequisites == Member(data, <<"prerequisites">>)
    IN
    IF Truthy(Member(data, <<"courseInfo">>)) /\ Truthy(topics) /\ Truthy(objectives)
    THEN IF ~IsArray(topics) \/ \E i \in 1..Len(topics.items) :
                                   HasNoProperties(topics.items[i].v)
         THEN Failed   \* TypeError, rethrown as 'Failed to transform AI response'
         ELSE Returned(JsonObject(<<
                Prop("topics",
                     JsonArray([i \in 1..Len(topics.items) |->
                                  TopicOfCourse(topics.items[i].v, objectives)])),
                Prop("totalDuration", JsonNumber(Len(topics.items) * 2)),
                Prop("courseObjectives", objectives),
                Prop("prerequisites", JsonArray(<<>>))>>))
    ELSE IF ValidateSyllabusResponse(data)
    THEN Returned(data)
    ELSE IF IsArray(topics) /\ \E i \in 1..Len(topics.items) :
                                  HasNoProperties(topics.items[i].v)
    THEN Failed
    ELSE Returned(JsonObject(<<
           Prop("topics",
                IF IsArray(topics)
                THEN JsonArray([i \in 1..Len(topics.items) |->
                                  AdaptedTopic(topics.items[i].v)])
                ELSE JsonArray(<<>>)),
           Prop("totalDuration",
                IF IsNumber(totalDuration) THEN totalDuration
                ELSE JsonAtom("number", <<"10">>)),
           Prop("courseObjectives",
                IF IsArray(courseObjectives) THEN courseObjectives ELSE JsonArray(<<>>)),
           Prop("prerequisites",
                IF IsArray(prerequisites) THEN prerequisites ELSE JsonArray(<<>>))>>))

\* analyzeSyllabus from the point where generateContent has resolved to rawResult
AnalyzeSyllabusRun(rawResult) ==
    IF ~Truthy(rawResult)
    THEN Failed   \* 'Empty response received from AI'
    ELSE
    LET transformedResult == TransformToAnalyzedSyllabus(rawResult) IN
    IF transformedResult.result = "error" THEN Failed
    ELSE IF ~ValidateSyllabusResponse(transformedResult.value)
    THEN Failed   \* 'Invalid response structure from AI model'
    ELSE Returned(transformedResult.value)

\* a member of an object under construction, left out when there is no value
Optional(key, value) == IF value = JsonUndefined THEN <<>> ELSE <<Prop(key, value)>>

GoodTopic ==
    JsonObject(<<Prop("title", Text("Intro")),
                 Prop("subtopics", JsonArray(<<Text("A"), Text("B")>>))>>)

TopicsInputs ==
    { JsonUndefined, Text("abc"), JsonArray(<<>>), JsonArray(<<GoodTopic>>),
      JsonArray(<<GoodTopic, JsonObject(<<Prop("subtopics", JsonArray(<<>>))>>)>>),
      JsonArray(<<JsonObject(<<Prop("title", Text("Intro")),
                               Prop("subtopics", Text("A"))>>)>>),
      JsonArray(<<JsonNull>>) }

StringListInputs ==
    { JsonUndefined, JsonArray(<<Text("A")>>), Text("A"),
      JsonArray(<<JsonNumber(1)>>) }

\* the values generateContent may resolve to
SyllabusValues ==
    { JsonObject(Optional("topics", topics) \o Optional("totalDuration", duration)
                 \o Optional("courseObjectives", objectives)
                 \o Optional("prerequisites", prerequisites)) :
        topics \in TopicsInputs,
        duration \in {JsonUndefined, JsonNumber(6), Text("6")},
        objectives \in StringListInputs,
        prerequisites \in {JsonUndefined, JsonArray(<<>>)} }
    \cup { JsonObject(<<Prop("courseInfo", JsonObject(<<Prop("title", Text("C"))>>)),
                        Prop("topics", topics),
                        Prop("objectives", JsonArray(<<Text("O")>>))>>) :
             topics \in TopicsInputs \ {JsonUndefined} }
    \cup { JsonNull, Text("abc"), JsonArray(<<GoodTopic>>) }

InitSyllabus ==
    /\ resources = <<>>
    /\ contents = <<>>
    /\ calls = 0
    /\ now = 0
    /\ resourceCache = <<>>
    /\ stored = <<>>
    /\ pending = <<>>
    /\ last \in {[NoCall EXCEPT !.op = "rawResult", !.found = <<v>>] : v \in SyllabusValues}

\* params holds the value passed in, found the value returned
ValidateSyllabusResponseCall ==
    /\ last.op = "rawResult" /\ ~HasNoProperties(last.found[1])
    /\ last' = [last EXCEPT
                  !.op = "validateSyllabusResponse", !.params = last.found,
                  !.result = IF ValidateSyllabusResponse(last.found[1])
                             THEN "accepted" ELSE "rejected"]
    /\ UNCHANGED <<dbVars, now, resourceCache, stored, pending>>

AnalyzeSyllabus ==
    LET out == AnalyzeSyllabusRun(last.found[1]) IN
    /\ last.op = "rawResult"
    /\ last' = [last EXCEPT !.op = "analyzeSyllabus", !.params = last.found,
                            !.found = <<out.value>>, !.result = out.result]
    /\ UNCHANGED <<dbVars, now, resourceCache, stored, pending>>

NextSyllabus ==
    \/ ValidateSyllabusResponseCall
    \/ AnalyzeSyllabus

SpecSyllabus == InitSyllabus /\ [][NextSyllabus]_vars

(***************************************************************************)
(* The balancing step of safeJsonParse, on the texts that reach it when    *)
(* the model's answer was cut off: the answer is a payload written out and *)
(* cut after any of its tokens, bare or inside a code fence.               *)
(***************************************************************************)
\* cleanedJson as it reaches the balancing step
Unbalanced(jsonText) ==
    InsertCommas(DropTrailingCommas(QuoteKeys(CloseStrings(jsonText, 1), 1), 1), 1)

CutOffTexts ==
    UNION {{SubSeq(Stringify(v, style), 1, n) :
              n \in 1..(Len(Stringify(v, style)) - 1)} :
           v \in PayloadValues, style \in Styles}

CutOffResponses ==
    {Response(Wrap(t, w), JsonUndefined, "cutOff", FALSE) :
        t \in CutOffTexts, w \in {"bare", "fencedJson"}}

InitBalance ==
    /\ resources = <<>>
    /\ contents = <<>>
    /\ calls = 0
    /\ now = 0
    /\ resourceCache = <<>>
    /\ stored = <<>>
    /\ pending = <<>>
    /\ last \in {[NoCall EXCEPT !.op = "response", !.params = r] : r \in CutOffResponses}

\* safeJsonParse up to the end of the balancing step: key is cleanedJson
\* before the step, found holds it after the step
BalanceBracesCall ==
    LET cleanedJson == Unbalanced(ExtractJsonFromText(last.params.text)) IN
    /\ last.op = "response"
    /\ last' = [last EXCEPT !.op = "balanceBraces", !.key = cleanedJson,
                            !.found = <<BalanceBraces(cleanedJson)>>]
    /\ UNCHANGED <<dbVars, now, resourceCache, stored, pending>>

NextBalance == BalanceBracesCall

SpecBalance == InitBalance /\ [][NextBalance]_vars

(***************************************************************************)
(* VersionService.createVersion with other calls running at its awaits:    *)
(* the call suspends at await Content.findById and at await                *)
(* content.save().  save() sends the changes made to the loaded document:  *)
(* a $push of the new Version, and a $set of currentVersion and of every   *)
(* field that was assigned another value.  A save that sets an array as a  *)
(* whole ($set of resources) matches the stored document on the version    *)
(* key __v and fails with a VersionError when another save has changed     *)
(* it; a save that only pushes does not.                                   *)
(***************************************************************************)
\* has __v changed since the document was loaded: every save of
\* createVersion pushes a Version and increments it
StaleDocument(loaded, storedDoc) == Len(storedDoc.versions) # Len(loaded.versions)

\* does the save $set the resources array
SetsResources(loaded, updates) ==
    TruthyResources(updates) /\ updates.resources # loaded.resources

\* a save that writes the pushed Version only
LedgerOnly(storedDoc, loaded, version, updates) ==
    [storedDoc EXCEPT !.versions = PushVersion(@, version)]

\* the stored document after the save of a createVersion call
SavedContent(storedDoc, loaded, version, updates) ==
    [storedDoc EXCEPT
       !.versions = PushVersion(@, version),
       !.currentVersion = version.versionNumber,
       !.title = IF TruthyTitle(updates) THEN updates.title ELSE @,
       !.description = IF TruthyDescription(updates) THEN updates.description ELSE @,
       !.resources = IF TruthyResources(updates) THEN updates.resources ELSE @,
       !.syllabusData = IF TruthySyllabusData(updates) THEN updates.syllabusData
                        ELSE @]

\* createVersion up to the point where Content.findById has resolved
CreateVersionRead(cid, userId, updates, changes) ==
    LET content == FindContent(contents, cid) IN
    /\ IF ~IsValidObjectId(cid) \/ ~content.exists
       THEN /\ last' = [NoCall EXCEPT !.op = "createVersion", !.cid = cid,
                                      !.result = "error"]
            /\ UNCHANGED pending
       ELSE /\ Len(pending) < MaxPending
            /\ pending' = Append(pending,
                   [op |-> "createVersion", cid |-> cid, userId |-> userId,
                    updates |-> updates, changes |-> changes, loaded |-> content])
            /\ last' = [NoCall EXCEPT !.op = "createVersion", !.cid = cid,
                                      !.result = "awaiting"]
    /\ UNCHANGED <<dbVars, now, resourceCache, stored>>

\* createVersion from there to its end
CreateVersionSave(i, fault) ==
    LET p == pending[i]
        storedDoc == contents[p.cid]
        newVersion == NewVersion(p.loaded, p.userId, p.updates, p.changes, now)
        fails == \/ ~IsValidObjectId(p.userId)
                 \/ fault = "save"
                 \/ SetsResources(p.loaded, p.updates) /\ StaleDocument(p.loaded, storedDoc)
    IN
    /\ p.op = "createVersion"
    /\ pending' = RemoveAt(pending, i)
    /\ IF fails
       THEN /\ UNCHANGED dbVars
            /\ last' = [NoCall EXCEPT !.op = "createVersion", !.cid = p.cid,
                                      !.fault = "save", !.result = "error"]
       ELSE /\ calls < MaxCalls
            /\ calls' = calls + 1
            /\ contents' = [contents EXCEPT
                              ![p.cid] = SavedContent(storedDoc, p.loaded, newVersion,
                                                      p.updates)]
            /\ UNCHANGED resources
            /\ last' = [NoCall EXCEPT
                          !.op = "createVersion", !.cid = p.cid,
                          !.version = newVersion,
                          !.again = StaleDocument(p.loaded, storedDoc)]
    /\ UNCHANGED <<now, resourceCache, stored>>

\* one Content, and createVersion calls on it
NextVersions ==
    \/ contents = <<>> /\ CreateContent("T1", "D1")
    \/ \E cid \in ContentIdInputs, updates \in UpdateInputs :
           CreateVersionRead(cid, 1, updates, <<"edit">>)
    \/ \E i \in DOMAIN pending, fault \in VersionFaults : CreateVersionSave(i, fault)

SpecVersions == Init /\ [][NextVersions]_vars

(***************************************************************************)
(* ResourceLinkService.linkResourceToContent with other calls running at   *)
(* its awaits.  The transaction reads the two documents from its snapshot  *)
(* (findById(...).session(session)); a save in the session of a document   *)
(* that another transaction has changed since the snapshot is rejected     *)
(* with a write conflict.  save() sends nothing for a document whose       *)
(* fields were assigned the values they had.                               *)
(***************************************************************************)
\* resource.save({ session }) has something to write
WritesResource(resource, cid, linkType) ==
    resource.content # cid \/ resource.linkType # linkType

\* linkResourceToContent up to the point where both findById have resolved
LinkBegin(rid, cid, linkType) ==
    LET resource == FindResource(resources, rid)
        content == FindContent(contents, cid)
        stage == IF ~IsValidObjectId(rid) \/ ~IsValidObjectId(cid) THEN "validate"
                 ELSE IF ~resource.exists \/ ~content.exists THEN "find"
                 ELSE "none"
    IN
    /\ IF stage # "none"
       THEN /\ last' = [NoCall EXCEPT !.op = "link", !.rid = rid, !.cid = cid,
                                      !.linkType = linkType, !.fault = stage,
                                      !.result = "error"]
            /\ UNCHANGED pending
       ELSE /\ Len(pending) < MaxPending
            /\ pending' = Append(pending,
                   [op |-> "link", rid |-> rid, cid |-> cid, linkType |-> linkType,
                    resource |-> resource, content |-> content])
            /\ last' = [NoCall EXCEPT !.op = "link", !.rid = rid, !.cid = cid,
                                      !.linkType = linkType, !.result = "awaiting"]
    /\ UNCHANGED <<dbVars, now, resourceCache, stored>>

\* linkResourceToContent from there to its end: the two saves, then the commit,
\* or the catch block (abortTransaction, throw) at the first rejected save
LinkFinish(i) ==
    LET p == pending[i]
        push == NeedsPush(p.content, p.rid)
        conflict == \/ /\ WritesResource(p.resource, p.cid, p.linkType)
                       /\ resources[p.rid] # p.resource
                    \/ push /\ contents[p.cid] # p.content
        call == [NoCall EXCEPT !.op = "link", !.rid = p.rid, !.cid = p.cid,
                               !.linkType = p.linkType]
    IN
    /\ p.op = "link"
    /\ pending' = RemoveAt(pending, i)
    /\ IF conflict
       THEN /\ UNCHANGED dbVars
            /\ last' = [call EXCEPT !.fault = "conflict", !.result = "error"]
       ELSE /\ calls < MaxCalls
            /\ calls' = calls + 1
            /\ resources' = [resources EXCEPT
                               ![p.rid] = [p.resource EXCEPT !.content = p.cid,
                                                             !.linkType = p.linkType]]
            /\ contents' = IF push
                           THEN [contents EXCEPT
                                   ![p.cid] = [p.content EXCEPT
                                                 !.resources = Append(@, p.rid)]]
                           ELSE contents
            /\ last' = call
    /\ UNCHANGED <<now, resourceCache, stored>>

NextLink ==
    \/ CreateContent("T1", "D1")
    \/ \E cid \in {Undefined} \cup DOMAIN contents : CreateResource("ok", cid)
    \/ \E rid \in ResourceIdInputs, cid \in ContentIdInputs, linkType \in LinkTypes :
           LinkBegin(rid, cid, linkType)
    \/ \E i \in DOMAIN pending : LinkFinish(i)

SpecLink == Init /\ [][NextLink]_vars

(***************************************************************************)
(* linkResourceToContent calls, one after another, on records that were    *)
(* created unlinked: two Resources without a content and two Contents with *)
(* an empty resources list.                                                *)
(***************************************************************************)
InitLinks ==
    /\ resources = <<NewResource(Undefined, ""), NewResource(Undefined, "")>>
    /\ contents = <<NewContent("T1", "D1", "{}"), NewContent("T1", "D1", "{}")>>
    /\ calls = 0
    /\ now = 0
    /\ resourceCache = <<>>
    /\ stored = <<>>
    /\ pending = <<>>
    /\ last = NoCall

NextLinks == \E i \in LinkInputs : Link(i[1], i[2], i[3], i[4])

SpecLinks == InitLinks /\ [][NextLinks]_vars

(***************************************************************************)
(* VersionService.createVersion called with updates that set a field to    *)
(* an empty value.  syllabusData is a Mixed path of the Content schema, so *)
(* an empty string is a value it can hold.                                 *)
(***************************************************************************)
SnapshotUpdates ==
    UpdateInputs \cup
    { [NoUpdates EXCEPT !.fields = {"title"}, !.title = "T2"],
      [NoUpdates EXCEPT !.fields = {"syllabusData"}, !.syllabusData = ""],
      [NoUpdates EXCEPT !.fields = {"syllabusData", "resources"},
                        !.syllabusData = "{1}", !.resources = <<>>] }

NextSnapshot ==
    \/ CreateContent("T1", "D1")
    \/ \E cid \in ContentIdInputs, updates \in SnapshotUpdates, fault \in VersionFaults :
           CreateVersion(cid, 1, updates, <<"edit">>, fault)

SpecSnapshot == Init /\ [][NextSnapshot]_vars

(***************************************************************************)
(* The store: Resource/Content links and the version ledger.               *)
(***************************************************************************)

\* C1: every Resource whose content back-reference is set to a Content c has
\* its identifier in c's resources list, in every state the handlers reach.
C1_BidirectionalConsistency ==
    \A r \in DOMAIN resources :
        (resources[r].exists /\ resources[r].content # Undefined)
            => Contains(FindContent(contents, resources[r].content).resources, r)

\* C2: a linkResourceToContent call that fails at content.save, after the
\* Resource's back-reference and linkType were saved, leaves both collections
\* as they were before the call.
C2_NoPartialLink ==
    [][(last'.op = "link" /\ last'.fault = "contentSave")
          => (resources' = resources /\ contents' = contents)]_vars

C2_FailedAfterResourceSave ==
    /\ last.op = "link" /\ last.fault = "contentSave" /\ last.result = "error"
    /\ resources[last.rid].exists
    /\ resources[last.rid].content # last.cid
    /\ ~Contains(contents[last.cid].resources, last.rid)

C4_LinkNotFound ==
    [][(/\ last'.op = "link"
        /\ \/ ~IsValidObjectId(last'.rid)
           \/ ~IsValidObjectId(last'.cid)
           \/ ~FindResource(resources, last'.rid).exists
           \/ ~FindContent(contents, last'.cid).exists)
          => (last'.result = "error" /\ resources' = resources
              /\ contents' = contents)]_vars

C4_LinkToMissingContent ==
    /\ last.op = "link" /\ last.result = "error" /\ last.fault = "find"
    /\ FindResource(resources, last.rid).exists
    /\ ~FindContent(contents, last.cid).exists

\* C5: the ledger of a Content holds the version numbers 1..k in append order,
\* and once a Version was appended currentVersion is the ledger's length k.
C5_VersionNumbers ==
    \A c \in DOMAIN contents :
        LET versions == contents[c].versions IN
        /\ \A i \in 1..Len(versions) : versions[i].versionNumber = i
        /\ Len(versions) > 0 => contents[c].currentVersion = Len(versions)

C5_SeveralVersions ==
    \E c \in DOMAIN contents :
        /\ last.op = "createVersion" /\ last.result = "ok" /\ last.cid = c
        /\ Len(contents[c].versions) >= 2

\* C6: the ledger is append-only: every step keeps each Content's earlier
\* Versions unchanged as a prefix of its ledger, and only createVersion
\* changes a ledger.
C6_AppendOnly ==
    [][\A c \in DOMAIN contents :
          LET before == contents[c].versions
              after == contents'[c].versions IN
          /\ Len(after) >= Len(before)
          /\ SubSeq(after, 1, Len(before)) = before
          /\ last'.op # "createVersion" => after = before]_vars

C6_AppendedToLedger ==
    /\ last.op = "createVersion" /\ last.result = "ok"
    /\ Len(contents[last.cid].versions) >= 2
    /\ contents[last.cid].versions[1].content # contents[last.cid].versions[2].content

\* C7: getVersion(contentId, n) fails exactly when the Content does not exist
\* or its ledger holds no Version numbered n, otherwise it returns the Version
\* numbered n; it changes no state.
C7_GetVersion ==
    [][last'.op = "getVersion"
          => LET content == FindContent(contents, last'.cid)
                 held == /\ IsValidObjectId(last'.cid) /\ content.exists
                         /\ \E i \in 1..Len(content.versions) :
                               content.versions[i].versionNumber = last'.n
             IN /\ (last'.result = "error") <=> ~held
                /\ held => /\ last'.version.versionNumber = last'.n
                           /\ Contains(content.versions, last'.version)
                /\ resources' = resources
                /\ contents' = contents]_vars

C7_VersionNotFound ==
    /\ last.op = "getVersion" /\ last.result = "error"
    /\ FindContent(contents, last.cid).exists
    /\ Len(contents[last.cid].versions) > 0

(***************************************************************************)
(* The search cache.                                                       *)
(***************************************************************************)
KeysOf(cache) == [i \in 1..Len(cache) |-> cache[i].key]

\* C8: getCachedResult returns null for a fingerprint whose entry is older than
\* CACHE_EXPIRY.
C8_NoExpiredResult ==
    last.op = "getCachedResult"
        => \A i \in 1..Len(resourceCache) :
              (/\ resourceCache[i].key = last.key
               /\ now - resourceCache[i].timestamp > CACHE_EXPIRY)
                  => last.result = "null"

C8_ExpiredLookup ==
    /\ last.op = "getCachedResult" /\ last.result = "null"
    /\ \E i \in 1..Len(resourceCache) :
          /\ resourceCache[i].key = last.key
          /\ now - resourceCache[i].timestamp > CACHE_EXPIRY

\* C9: the cache holds at most MAX_CACHE_SIZE entries.
C9_CacheBounded == Len(resourceCache) <= MAX_CACHE_SIZE

C9_CacheOverflowed ==
    /\ last.op = "cacheResult"
    /\ Len(stored) > MAX_CACHE_SIZE
    /\ Len(resourceCache) = MAX_CACHE_SIZE

\* C10: once more than MAX_CACHE_SIZE distinct fingerprints were stored, the
\* cache holds the MAX_CACHE_SIZE most recently stored ones and no other; with
\* MAX_CACHE_SIZE + 1 of them, all but the first-stored.
C10_EvictsOldest ==
    Len(stored) > MAX_CACHE_SIZE
        => KeysOf(resourceCache)
             = SubSeq(stored, Len(stored) - MAX_CACHE_SIZE + 1, Len(stored))

C10_OneEvicted ==
    /\ last.op = "cacheResult"
    /\ Len(stored) = MAX_CACHE_SIZE + 1
    /\ KeysOf(resourceCache) = Tail(stored)
    /\ resourceCache[1].timestamp < resourceCache[Len(resourceCache)].timestamp

(***************************************************************************)
(* findResources and the resource-search route.                            *)
(***************************************************************************)

\* C11: the cache of a service instance holds at most one entry per
\* fingerprint, also when findResources calls for one fingerprint interleave
\* at their await on the model call and both store a result.
C11_OneEntryPerKey ==
    \A i, j \in 1..Len(resourceCache) :
        resourceCache[i].key = resourceCache[j].key => i = j

C11_InterleavedStores ==
    /\ last.op = "findResources" /\ last.via = "service"
    /\ StoredResult(last) /\ last.again
    /\ Len(SelectSeq(resourceCache, LAMBDA e : e.key = last.key)) = 1

\* C13: a request identical to one whose search has just stored a result, made
\* before the time-to-live elapses and without useRealUrls, returns the stored
\* list and calls no generative model; also through the resource-search route.
C13_RepeatServedFromCache ==
    [][(/\ last.op = "findResources" /\ StoredResult(last)
        /\ last'.op = "findResources" /\ last'.via = last.via
        /\ last'.result \in {"cached", "mock", "awaiting", "error"}
        /\ last'.params = last.params
        /\ ~last'.params.useRealUrls)
          => (/\ last'.result = "cached"
              /\ last'.found = last.found
              /\ ~CalledModel(last'))]_vars

\* C12: generateCacheKey gives two requests with the same topics in a
\* different order, and the same query, type and limit, the same fingerprint.
C12_KeyIgnoresTopicOrder ==
    [][(/\ last.op = "generateCacheKey" /\ last'.op = "generateCacheKey"
        /\ Len(last'.params.topics) = Len(last.params.topics)
        /\ \A t \in TopicNames :
              Count(last'.params.topics, t) = Count(last.params.topics, t)
        /\ [last'.params EXCEPT !.topics = <<>>] = [last.params EXCEPT !.topics = <<>>])
          => last'.key = last.key]_vars

C12_ReorderedTopics ==
    /\ last.op = "generateCacheKey"
    /\ Len(last.params.topics) = MaxTopics
    /\ last.params.topics # SortTopics(last.params.topics)
    /\ last.key = GenerateCacheKey([last.params EXCEPT !.topics = SortTopics(@)])

(***************************************************************************)
(* The recovery of an object from the model's response.                    *)
(***************************************************************************)
IsList(value) == value.t = "array"

\* C14: for every response text of the model (well-formed, malformed, a bare
\* scalar such as null, or empty) generateLectureOutline and enhanceContent
\* return an object with the fields of their kind, the list fields lists, and
\* fail with no error.
C14_RecoverNeverFails ==
    (last.op \in {"generateLectureOutline", "enhanceContent"} /\ ~last.params.rejects)
        => /\ last.result = "ok"
           /\ \A key \in {<<"keyPoints">>, <<"examples">>} :
                 IsList(Member(last.found[1], key))
           /\ last.op = "generateLectureOutline"
                 => /\ IsList(Member(last.found[1], <<"sections">>))
                    /\ IsList(Member(last.found[1], <<"exercises">>))
           /\ last.op = "enhanceContent"
                 => /\ Member(last.found[1], <<"content">>).t = "string"
                    /\ IsList(Member(last.found[1], <<"references">>))

\* C15: for every well-formed JSON payload, bare or wrapped in a code fence or
\* in commentary, safeJsonParse returns the payload's own decoding, from a text
\* no repair has changed.
C15_WellFormedRoundTrip ==
    (/\ last.op = "safeJsonParse" /\ last.params.defect = "none"
     /\ last.params.payload # JsonUndefined)
        => /\ last.found = <<last.params.payload>>
           /\ last.result = "exact"

\* C16: for every payload made from a well-formed JSON object by one trailing
\* comma, one unquoted key or one unterminated trailing string, safeJsonParse
\* returns the original object from the repaired text, not the object
\* createContentFromText builds.
C16_OneDefectRepaired ==
    (last.op = "safeJsonParse" /\ last.params.defect # "none")
        => /\ last.found = <<last.params.payload>>
           /\ last.result = "repaired"

(***************************************************************************)
(* createVersion calls that interleave.                                    *)
(***************************************************************************)

\* C17: also when createVersion calls on one Content interleave, the version
\* numbers of its ledger are strictly increasing, hence pairwise distinct, and
\* currentVersion is the number of the Version appended last.
C17_InterleavedVersionNumbers ==
    \A c \in DOMAIN contents :
        LET versions == contents[c].versions IN
        /\ \A i, j \in 1..Len(versions) :
              i < j => versions[i].versionNumber < versions[j].versionNumber
        /\ Len(versions) > 0
              => contents[c].currentVersion = versions[Len(versions)].versionNumber

(***************************************************************************)
(* linkResourceToContent calls that interleave.                            *)
(***************************************************************************)

\* C18: a linkResourceToContent call that hit a write conflict is retried from
\* scratch and fails only when its attempts are used up: once the call has
\* ended with no other call in flight (a retry would have met no conflict),
\* it has not failed and the link it was asked for is in place.
C18_ConflictRetried ==
    (last.op = "link" /\ last.fault = "conflict" /\ pending = <<>>)
        => /\ last.result # "error"
           /\ resources[last.rid].content = last.cid
           /\ resources[last.rid].linkType = last.linkType
           /\ Contains(contents[last.cid].resources, last.rid)

(***************************************************************************)
(* The snapshot taken by createVersion.                                    *)
(***************************************************************************)

\* C19: the Version returned by a createVersion call holds, for each of title,
\* description, resources and syllabusData, the value of updates when updates
\* has that field, an empty string or an empty list included, and the
\* Content's value before the call otherwise; and these values are the
\* Content's current fields after the call.
C19_SnapshotHoldsUpdates ==
    [][\A cid \in DOMAIN contents, updates \in SnapshotUpdates :
          (CreateVersion(cid, 1, updates, <<"edit">>, "none") /\ last'.result = "ok")
          => LET snapshot == last'.version.content
                 prior == contents[cid]
                 current == contents'[cid]
                 Given(field) == field \in updates.fields
             IN
             /\ snapshot.title = IF Given("title") THEN updates.title ELSE prior.title
             /\ snapshot.description = IF Given("description") THEN updates.description
                                       ELSE prior.description
             /\ snapshot.resources = IF Given("resources") THEN updates.resources
                                     ELSE prior.resources
             /\ snapshot.syllabusData = IF Given("syllabusData")
                                        THEN updates.syllabusData
                                        ELSE prior.syllabusData
             /\ snapshot.title = current.title
             /\ snapshot.description = current.description
             /\ snapshot.resources = current.resources
             /\ snapshot.syllabusData = current.syllabusData]_vars

(***************************************************************************)
(* createVersion writes once.                                              *)
(***************************************************************************)

\* C20: createVersion is atomic.  Whenever a stored Content changes, the
\* step that appends the Version is the step that sets currentVersion to its
\* number and gives every field that changes the value of its snapshot; and a
\* createVersion call that fails (Content not found, or the save rejected)
\* leaves every stored Content as it was.
C20_CreateVersionAtomic ==
    [][/\ (last'.op = "createVersion" /\ last'.result = "error")
             => contents' = contents
       /\ \A c \in DOMAIN contents :
             contents'[c] # contents[c]
             => LET before == contents[c]
                    after == contents'[c]
                    version == last'.version
                IN
                /\ last'.op = "createVersion" /\ last'.result = "ok"
                /\ after.versions = Append(before.versions, version)
                /\ after.currentVersion = version.versionNumber
                /\ after.title # before.title => after.title = version.content.title
                /\ after.description # before.description
                      => after.description = version.content.description
                /\ after.resources # before.resources
                      => after.resources = version.content.resources
                /\ after.syllabusData # before.syllabusData
                      => after.syllabusData = version.content.syllabusData]_vars

\* a save was rejected for a Content that has Versions and updated fields
C20_FailedSaveAfterVersions ==
    /\ last.op = "createVersion" /\ last.result = "error" /\ last.fault = "save"
    /\ Len(contents[last.cid].versions) >= 2
    /\ contents[last.cid].resources = <<1>>

(***************************************************************************)
(* Expired cache entries.                                                  *)
(***************************************************************************)

\* C21: after a getCachedResult call for a key whose entry has expired, no
\* expired entry is stored under that key (the access that finds it purges
\* it); and an entry leaves the cache only in a getCachedResult or a
\* cacheResult call.
C21_ExpiredPurgedOnAccess ==
    [][/\ last'.op = "getCachedResult"
             => \A i \in DOMAIN resourceCache' :
                   resourceCache'[i].key = last'.key
                       => IsFresh(resourceCache'[i], now')
       /\ (\E i \in DOMAIN resourceCache :
              \A j \in DOMAIN resourceCache' : resourceCache'[j] # resourceCache[i])
             => last'.op \in {"getCachedResult", "cacheResult"}]_vars

(***************************************************************************)
(* findResources with useRealUrls.                                         *)
(***************************************************************************)

C23_WriteAfterModelCall ==
    [][/\ resourceCache' # resourceCache
             => /\ last'.op = "findResources"
                /\ resourceCache'[Len(resourceCache')].key = last'.key
                /\ <<resourceCache'[Len(resourceCache')].resources>> = last'.found
                /\ \/ /\ last'.result = "mock"
                      /\ pending' = pending
                      /\ Len(last'.params.topics) = 0 \/ last'.params.syllabusText = ""
                   \/ /\ last'.result \in {"suggested", "fallback"}
                      /\ \E i \in DOMAIN pending :
                            /\ pending' = RemoveAt(pending, i)
                            /\ GenerateCacheKey(pending[i].params) = last'.key
       /\ Len(pending') > Len(pending) => resourceCache' = resourceCache]_vars

\* a call has stored its result while another call, which started before it
\* ended, is still waiting for its model call
C23_StoredWhileOtherPending ==
    /\ last.op = "findResources" /\ last.result \in {"suggested", "fallback"}
    /\ Len(pending) >= 1
    /\ \E i \in DOMAIN pending : GenerateCacheKey(pending[i].params) = last.key
    /\ Len(SelectSeq(resourceCache, LAMBDA e : e.key = last.key)) = 1

(***************************************************************************)
(* The balancing step.                                                     *)
(***************************************************************************)

\* C24: when the text that reaches the balancing step of safeJsonParse has
\* no fewer opening braces than closing ones and no fewer opening brackets
\* than closing ones, and more of one kind, the step only appends closers,
\* and afterwards the text has as many { as } and as many [ as ].
C24_BalancedAfterStep ==
    (/\ last.op = "balanceBraces"
     /\ Count(last.key, "{") >= Count(last.key, "}")
     /\ Count(last.key, "[") >= Count(last.key, "]")
     /\ \/ Count(last.key, "{") > Count(last.key, "}")
        \/ Count(last.key, "[") > Count(last.key, "]"))
        => LET after == last.found[1] IN
           /\ SubSeq(after, 1, Len(last.key)) = last.key
           /\ \A i \in (Len(last.key) + 1)..Len(after) : after[i] \in {"}", "]"}
           /\ Count(after, "{") = Count(after, "}")
           /\ Count(after, "[") = Count(after, "]")

(***************************************************************************)
(* The validation of a syllabus analysis.                                  *)
(***************************************************************************)
ListOfStrings(value) ==
    IsArray(value) /\ \A i \in 1..Len(value.items) : value.items[i].v.t = "string"

\* the structure a syllabus analysis is required to have
WellFormedAnalysis(data) ==
    LET topics == Member(data, <<"topics">>) IN
    /\ IsArray(topics) /\ Len(topics.items) > 0
    /\ \A i \in 1..Len(topics.items) :
          /\ Member(topics.items[i].v, <<"title">>).t = "string"
          /\ ListOfStrings(Member(topics.items[i].v, <<"subtopics">>))
    /\ IsNumber(Member(data, <<"totalDuration">>))
    /\ ListOfStrings(Member(data, <<"courseObjectives">>))
    /\ ListOfStrings(Member(data, <<"prerequisites">>))

\* C25: validateSyllabusResponse accepts a value only if its topics is a
\* non-empty list of elements with a string title and a list-of-strings
\* subtopics, its totalDuration a number and its courseObjectives and
\* prerequisites lists of strings; analyzeSyllabus returns an analysis only
\* for such a value, and returns that value, with nothing defaulted.
C25_ValidatorAcceptsWellFormedOnly ==
    /\ (last.op = "validateSyllabusResponse" /\ last.result = "accepted")
          => WellFormedAnalysis(last.params[1])
    /\ (last.op = "analyzeSyllabus" /\ last.result = "ok")
          => /\ WellFormedAnalysis(last.params[1])
             /\ last.found = last.params

(***************************************************************************)
(* Links to more than one Content.                                         *)
(***************************************************************************)

\* C26: after linkResourceToContent calls on records that started unlinked, a
\* Content's resources list holds a Resource's identifier only if the
\* Resource's content back-reference is that Content.
C26_ListedOnlyWhereLinked ==
    \A c \in DOMAIN contents :
        \A i \in 1..Len(contents[c].resources) :
            FindResource(resources, contents[c].resources[i]).content = c

(***************************************************************************)
(* The current-version pointer.                                            *)
(***************************************************************************)

\* C27: in every state, for every Content, one just created included,
\* currentVersion is the number of Versions in the ledger, so that it names
\* no Version that getVersion cannot find.
C27_CurrentVersionIsLedgerLength ==
    \A c \in DOMAIN contents :
        /\ contents[c].currentVersion = Len(contents[c].versions)
        /\ contents[c].currentVersion > 0
              => FindVersion(contents[c].versions, contents[c].currentVersion)
                   # NoVersion

(***************************************************************************)
(* The lists findResources stores.                                         *)
(***************************************************************************)

\* C28: every entry findResources has stored holds a non-empty resource
\* list, whatever the limit of the request, a negative one included, and no
\* findResources call fails on reading the first element of a cached list.
C28_StoredListsNonEmpty ==
    /\ \A i \in DOMAIN resourceCache : resourceCache[i].resources # <<>>
    /\ last.op = "findResources" => last.result # "error"

(***************************************************************************)
(* Requests that share a fingerprint.                                      *)
(***************************************************************************)
\* the type and the limit of a request, an absent one counted as 'all', as 10
TypeOf(params) == IF "type" \in params.fields THEN params.type ELSE <<"a", "l", "l">>
LimitOf(params) == IF "limit" \in params.fields THEN params.limit ELSE 10

\* C29: generateCacheKey gives two requests the same fingerprint only if they
\* have the same topics up to their order, the same query, the same type and
\* the same limit, an absent type counted as 'all' and an absent limit as 10.
C29_SameKeySameRequest ==
    [][(/\ last.op = "generateCacheKey" /\ last'.op = "generateCacheKey"
        /\ last'.key = last.key)
          => /\ Len(last'.params.topics) = Len(last.params.topics)
             /\ \A i \in 1..Len(last.params.topics) :
                   Count(last'.params.topics, last.params.topics[i])
                     = Count(last.params.topics, last.params.topics[i])
             /\ last'.params.query = last.params.query
             /\ TypeOf(last'.params) = TypeOf(last.params)
             /\ LimitOf(last'.params) = LimitOf(last.params)]_vars

(***************************************************************************)
(* The caller's request object.                                            *)
(***************************************************************************)

\* C30: findResources leaves the caller's request as it was: when the call
\* has ended, with a cached or with a generated result, params.topics holds
\* the same elements in the same order as before the call.
C30_TopicsUnchanged ==
    (last.op = "findResources"
     /\ last.result \in {"cached", "mock", "suggested", "fallback"})
        => last.topics = last.params.topics
====
